---- MODULE Spec2Model ----
(***************************************************************************)
(* PDController of src/uuv_mission/control.py as a state machine.          *)
(*                                                                         *)
(* Numbers are floating-point values of a small decimal format: a finite   *)
(* value is an integer count of hundredths whose significand has at most   *)
(* Digits decimal digits, every operation rounds its exact result to the   *)
(* nearest representable value (ties to even), a result beyond MaxFinite   *)
(* becomes an infinity, and inf - inf and 0 * inf are not-a-number.        *)
(* Division by zero raises ZeroDivisionError, as Python's float division   *)
(* does.  Zero is one value (Python's == does not tell -0.0 from 0.0).     *)
(***************************************************************************)
EXTENDS Integers

\* ------------------------------------------------------------------ bounds

\* Significand digits of the number format.
Digits == 2
\* Largest decimal exponent of the unit in the last place (in hundredths).
MaxExp == 2

\* ------------------------------------------------------------ float values

Fin(n) == [k |-> "fin", v |-> n]
NaN == [k |-> "nan", v |-> 0]
None == [k |-> "None", v |-> 0]
ZeroDivisionError == [k |-> "ZeroDivisionError", v |-> 0]

MaxFinite == (10^Digits - 1) * 10^MaxExp

Abs(n) == IF n < 0 THEN -n ELSE n
Sign(n) == IF n < 0 THEN -1 ELSE 1

IsFin(x) == x.k = "fin"
IsInf(x) == x.k = "inf"
IsNaN(x) == x.k = "nan"
IsZero(x) == x.k = "fin" /\ x.v = 0
\* Sign of a finite or infinite value (1 for zero).
SignOf(x) == IF x.v < 0 THEN -1 ELSE 1

\* The exponent of the unit in the last place of the non-negative rational
\* num/den: the least j with num/den < 10^(Digits+j), MaxExp + 1 when none
\* is in range.
UlpExp(num, den) ==
    IF \E j \in 0..MaxExp : num < 10^(Digits + j) * den
    THEN CHOOSE j \in 0..MaxExp :
            /\ num < 10^(Digits + j) * den
            /\ \A i \in 0..MaxExp : num < 10^(Digits + i) * den => j <= i
    ELSE MaxExp + 1

\* Round the rational s * num/den (num >= 0, den > 0, s the sign) to the
\* nearest representable value, ties to the even significand; overflow gives
\* the infinity of that sign.
Round(s, num, den) ==
    LET j == UlpExp(num, den)
    IN  IF j > MaxExp THEN [k |-> "inf", v |-> s]
        ELSE LET ulp == 10^j
                 m == num \div (den * ulp)
                 twice == 2 * (num - m * den * ulp)
                 up == \/ twice > den * ulp
                       \/ (twice = den * ulp /\ m % 2 = 1)
                 n == (IF up THEN m + 1 ELSE m) * ulp
             IN  IF n > MaxFinite THEN [k |-> "inf", v |-> s]
                 ELSE Fin(s * n)

\* float(x) of a decimal numeral x (an integer count of hundredths).
Float(x) == Round(Sign(x), Abs(x), 1)

Neg(a) ==
    IF IsNaN(a) THEN NaN ELSE [k |-> a.k, v |-> -a.v]

\* a + b
Add(a, b) ==
    IF IsNaN(a) \/ IsNaN(b) THEN NaN
    ELSE IF IsInf(a) /\ IsInf(b) THEN (IF a.v = b.v THEN a ELSE NaN)
    ELSE IF IsInf(a) THEN a
    ELSE IF IsInf(b) THEN b
    ELSE Round(Sign(a.v + b.v), Abs(a.v + b.v), 1)

\* a - b
Sub(a, b) == Add(a, Neg(b))

\* a * b
Mul(a, b) ==
    IF IsNaN(a) \/ IsNaN(b) THEN NaN
    ELSE IF IsInf(a) \/ IsInf(b)
         THEN (IF IsZero(a) \/ IsZero(b) THEN NaN
               ELSE [k |-> "inf", v |-> SignOf(a) * SignOf(b)])
    ELSE IF a.v = 0 \/ b.v = 0 THEN Fin(0)
    ELSE Round(Sign(a.v) * Sign(b.v), Abs(a.v) * Abs(b.v), 100)

\* a / b; a zero divisor raises ZeroDivisionError whatever the dividend.
Div(a, b) ==
    IF IsZero(b) THEN ZeroDivisionError
    ELSE IF IsNaN(a) \/ IsNaN(b) THEN NaN
    ELSE IF IsInf(a)
         THEN (IF IsInf(b) THEN NaN
               ELSE [k |-> "inf", v |-> SignOf(a) * SignOf(b)])
    ELSE IF IsInf(b) \/ a.v = 0 THEN Fin(0)
    ELSE Round(Sign(a.v) * Sign(b.v), Abs(a.v) * 100, Abs(b.v))

\* -------------------------------------------------------------- the class

\* Mutant: a zero dt is rejected at construction, so that no object exists.
init_rejects_zero_dt(kp, kd, dt) ==
    IF Float(dt) = Fin(0)
    THEN [kp |-> None, kd |-> None, dt |-> None, last_error |-> None]
    ELSE [kp |-> Float(kp), kd |-> Float(kd), dt |-> Float(dt),
          last_error |-> None]

\* PDController.__init__(kp, kd, dt)
init(kp, kd, dt) ==
    [kp |-> Float(kp), kd |-> Float(kd), dt |-> Float(dt), last_error |-> None]

\* error = float(reference) - float(observation)
error(reference, observation) == Sub(Float(reference), Float(observation))

\* Mutant: a missing previous error is read as 0.0 instead of being skipped.
derivative_zero_sentinel(self, err) ==
    Div(Sub(err, IF self.last_error = None THEN Fin(0) ELSE self.last_error),
        self.dt)

\* Mutant: the difference is taken the wrong way round.
derivative_swapped(self, err) ==
    IF self.last_error = None THEN Fin(0)
    ELSE Div(Sub(self.last_error, err), self.dt)

\* Mutant: the quotient is inverted, dt over the difference of the errors.
derivative_inverted(self, err) ==
    IF self.last_error = None THEN Fin(0)
    ELSE Div(self.dt, Sub(err, self.last_error))

\* Mutant: a zero dt is guarded and the derivative taken to be 0.0.
derivative_guarded(self, err) ==
    IF self.last_error = None \/ self.dt = Fin(0) THEN Fin(0)
    ELSE Div(Sub(err, self.last_error), self.dt)

\* The derivative term: 0.0 with no previous error, else the difference
\* quotient, which raises when dt is zero.
derivative(self, err) ==
    IF self.last_error = None THEN Fin(0)
    ELSE Div(Sub(err, self.last_error), self.dt)

\* Mutant: kp is added to the error instead of multiplying it.
u_plus(self, err, d) == Add(Add(self.kp, err), Mul(self.kd, d))

\* u = kp * error + kd * derivative
u(self, err, d) == Add(Mul(self.kp, err), Mul(self.kd, d))

\* Mutant: the error is stored only in the branch that had a previous error.
control_store_in_else(self, reference, observation) ==
    LET err == error(reference, observation)
        d == derivative(self, err)
    IN  IF d = ZeroDivisionError
        THEN [self |-> self, ret |-> ZeroDivisionError]
        ELSE [self |-> IF self.last_error = None THEN self
                       ELSE [self EXCEPT !.last_error = err],
              ret |-> u(self, err, d)]

\* Mutant: the proportional term is computed in place (self.kp *= error).
control_scales_kp(self, reference, observation) ==
    LET err == error(reference, observation)
        d == derivative(self, err)
    IN  IF d = ZeroDivisionError
        THEN [self |-> self, ret |-> ZeroDivisionError]
        ELSE [self |-> [self EXCEPT !.kp = Mul(self.kp, err), !.last_error = err],
              ret |-> u(self, err, d)]

\* Mutant: last_error is written before the derivative is computed.
control_store_first(self, reference, observation) ==
    LET err == error(reference, observation)
        d == derivative(self, err)
    IN  IF d = ZeroDivisionError
        THEN [self |-> [self EXCEPT !.last_error = err],
              ret |-> ZeroDivisionError]
        ELSE [self |-> [self EXCEPT !.last_error = err],
              ret |-> u(self, err, d)]

\* Mutant: the proportional term uses the reference instead of the error.
control_uses_reference(self, reference, observation) ==
    LET err == error(reference, observation)
        d == derivative(self, err)
    IN  IF d = ZeroDivisionError
        THEN [self |-> self, ret |-> ZeroDivisionError]
        ELSE [self |-> [self EXCEPT !.last_error = err],
              ret |-> u(self, Float(reference), d)]

\* PDController.control(reference, observation): the object after the call
\* and what the call gives its caller (the action, or the exception raised
\* before last_error is written).
control(self, reference, observation) ==
    LET err == error(reference, observation)
        d == derivative(self, err)
    IN  IF d = ZeroDivisionError
        THEN [self |-> self, ret |-> ZeroDivisionError]
        ELSE [self |-> [self EXCEPT !.last_error = err],
              ret |-> u(self, err, d)]

\* Mutant: reset stores 0.0 as the previous error.
reset_zero(self) == [self EXCEPT !.last_error = Fin(0)]

\* Mutant: reset forgets to clear the previous error.
reset_noop(self) == self

\* Mutant: reset clears a stored error and otherwise seeds 0.0.
reset_toggle(self) ==
    [self EXCEPT !.last_error = IF self.last_error = None THEN Fin(0) ELSE None]

\* PDController.reset()
reset(self) == [self EXCEPT !.last_error = None]

\* ------------------------------------------------------------------ inputs

\* Decimal numerals (hundredths) the caller constructs the controller with.
KpValues == {0, 15, -100}
\* 1015 is a numeral float() has to round.
KdValues == {0, 60, 1015}
DtValues == {0, 50, 100}
\* Offsets a caller may add to both arguments of a control call.
Offsets == {15, 1000, -1000, MaxFinite}
\* Observations passed by the two concurrent control calls.
ConcObservations == {0, 200}
\* References and observations: small values and the largest magnitudes,
\* whose difference overflows.
References == {0, 1000, MaxFinite}
Observations == {0, 200, 1000, -MaxFinite}

\* ------------------------------------------------------------------- state

VARIABLES
    self,       \* the PDController object: kp, kd, dt, last_error
    ctor,       \* the arguments the object was constructed with
    call,       \* the most recent call: operation, arguments, object before, outcome
    prev_call,  \* the call before it: operation, arguments, whether an error was stored
    completed,  \* a control call has returned since construction or the last reset
    zero_only,  \* every control call so far had reference = observation
    last_ok,    \* the error of the last control call that returned, None after a reset
    scenario,   \* how many calls of Scenario the calls made so far are, -1 once they differ
    other,      \* a second PDController object, built with the same arguments
    pair,       \* the two objects' histories and their actions once driven together
    conc        \* two control calls running concurrently on self

\* What the sequential driver records about its calls.
driver == <<call, prev_call, completed, zero_only, last_ok, scenario>>
\* The state used only with a second object or with concurrent calls.
aux == <<other, pair, conc>>
vars == <<self, ctor, call, prev_call, completed, zero_only, last_ok, scenario,
          other, pair, conc>>

\* The call sequence of the documented scenario, on a fresh controller:
\* control(10, 0), control(10, 2), reset(), control(10, 2).
Scenario ==
    <<[op |-> "control", reference |-> 1000, observation |-> 0],
      [op |-> "control", reference |-> 1000, observation |-> 200],
      [op |-> "reset", reference |-> 0, observation |-> 0],
      [op |-> "control", reference |-> 1000, observation |-> 200]>>

\* The scenario position after one more call.
ScenarioNext(op, reference, observation) ==
    IF /\ scenario \in 0..3
       /\ Scenario[scenario + 1] =
              [op |-> op, reference |-> reference, observation |-> observation]
    THEN scenario + 1
    ELSE -1

NoSelf == [kp |-> None, kd |-> None, dt |-> None, last_error |-> None]
NoCall == [op |-> "none", reference |-> 0, observation |-> 0, had_error |-> FALSE]
Brief(c) ==
    [op |-> c.op, reference |-> c.reference, observation |-> c.observation,
     had_error |-> c.before.last_error # None]

NoPair == [sync |-> FALSE, a |-> None, b |-> None, reset_a |-> FALSE,
           reset_b |-> FALSE, ret_a |-> None, ret_b |-> None]
NoThread == [pc |-> "idle", reference |-> 0, observation |-> 0, err |-> None,
             d |-> None, seen |-> 0, ret |-> None]
NoConc == [start |-> NoSelf, writes |-> 0, th |-> <<NoThread, NoThread>>]

Init ==
    \E kp \in KpValues, kd \in KdValues, dt \in DtValues :
        /\ other = NoSelf
        /\ pair = NoPair
        /\ conc = NoConc
        /\ self = init(kp, kd, dt)
        /\ ctor = [kp |-> kp, kd |-> kd, dt |-> dt]
        /\ call = [op |-> "__init__", reference |-> 0, observation |-> 0,
                   before |-> NoSelf, ret |-> None]
        /\ prev_call = NoCall
        /\ completed = FALSE
        /\ zero_only = TRUE
        /\ last_ok = None
        /\ scenario = 0

\* A control call with the given arguments, their difference e and outcome r.
ControlCall(reference, observation, e, r) ==
    /\ self' = r.self
    /\ call' = [op |-> "control", reference |-> reference,
                observation |-> observation, before |-> self, ret |-> r.ret]
    /\ prev_call' = Brief(call)
    /\ completed' = (completed \/ r.ret # ZeroDivisionError)
    /\ zero_only' = (zero_only /\ reference = observation)
    /\ last_ok' = IF r.ret = ZeroDivisionError THEN last_ok ELSE e
    /\ scenario' = ScenarioNext("control", reference, observation)
    /\ UNCHANGED <<ctor, aux>>

Control ==
    \E reference \in References, observation \in Observations :
        ControlCall(reference, observation,
                    Sub(Float(reference), Float(observation)),
                    control(self, reference, observation))

Reset ==
    /\ self' = reset(self)
    /\ call' = [op |-> "reset", reference |-> 0, observation |-> 0,
                before |-> self, ret |-> None]
    /\ prev_call' = Brief(call)
    /\ completed' = FALSE
    /\ last_ok' = None
    /\ scenario' = ScenarioNext("reset", 0, 0)
    /\ UNCHANGED <<ctor, zero_only, aux>>

Next == Control \/ Reset

Spec == Init /\ [][Next]_vars

\* ------------------------------------------------------- two objects

\* Two objects built with the same arguments.  Each first receives calls of
\* its own; once each has just completed a control call with the same error,
\* or neither has a completed call since construction or reset, the driver
\* may start giving both the same calls.
InitPair ==
    \E kp \in KpValues, kd \in KdValues, dt \in DtValues :
        /\ self = init(kp, kd, dt)
        /\ other = init(kp, kd, dt)
        /\ ctor = [kp |-> kp, kd |-> kd, dt |-> dt]
        /\ call = [op |-> "__init__", reference |-> 0, observation |-> 0,
                   before |-> NoSelf, ret |-> None]
        /\ prev_call = NoCall
        /\ completed = FALSE
        /\ zero_only = TRUE
        /\ last_ok = None
        /\ scenario = 0
        /\ pair = NoPair
        /\ conc = NoConc

\* What an object has just completed after a control call with outcome r
\* and argument difference e: e, or what it was when the call raised.
Completed(was, e, r) == IF r.ret = ZeroDivisionError THEN was ELSE e

PairControlA ==
    /\ ~pair.sync
    /\ \E reference \in References, observation \in Observations :
           \E r \in {control(self, reference, observation)} :
               /\ self' = r.self
               /\ pair' = [pair EXCEPT !.a =
                               Completed(@, Sub(Float(reference),
                                                Float(observation)), r)]
    /\ UNCHANGED <<ctor, driver, other, conc>>

PairControlB ==
    /\ ~pair.sync
    /\ \E reference \in References, observation \in Observations :
           \E r \in {control(other, reference, observation)} :
               /\ other' = r.self
               /\ pair' = [pair EXCEPT !.b =
                               Completed(@, Sub(Float(reference),
                                                Float(observation)), r)]
    /\ UNCHANGED <<ctor, driver, self, conc>>

PairResetA ==
    /\ ~pair.sync
    /\ self' = reset(self)
    /\ pair' = [pair EXCEPT !.a = None, !.reset_a = TRUE]
    /\ UNCHANGED <<ctor, driver, other, conc>>

PairResetB ==
    /\ ~pair.sync
    /\ other' = reset(other)
    /\ pair' = [pair EXCEPT !.b = None, !.reset_b = TRUE]
    /\ UNCHANGED <<ctor, driver, self, conc>>

PairSync ==
    /\ ~pair.sync
    /\ pair.a = pair.b
    /\ pair' = [pair EXCEPT !.sync = TRUE]
    /\ UNCHANGED <<ctor, driver, self, other, conc>>

PairBothControl ==
    /\ pair.sync
    /\ \E reference \in References, observation \in Observations :
           \E ra \in {control(self, reference, observation)},
              rb \in {control(other, reference, observation)} :
               /\ self' = ra.self
               /\ other' = rb.self
               /\ pair' = [pair EXCEPT
                              !.a = Completed(@, Sub(Float(reference),
                                                     Float(observation)), ra),
                              !.b = Completed(@, Sub(Float(reference),
                                                     Float(observation)), rb),
                              !.ret_a = ra.ret, !.ret_b = rb.ret]
    /\ UNCHANGED <<ctor, driver, conc>>

PairBothReset ==
    /\ pair.sync
    /\ self' = reset(self)
    /\ other' = reset(other)
    /\ pair' = [pair EXCEPT !.a = None, !.b = None,
                            !.ret_a = None, !.ret_b = None]
    /\ UNCHANGED <<ctor, driver, conc>>

NextPair ==
    \/ PairControlA
    \/ PairControlB
    \/ PairResetA
    \/ PairResetB
    \/ PairSync
    \/ PairBothControl
    \/ PairBothReset

SpecPair == InitPair /\ [][NextPair]_vars

\* ------------------------------------------------- concurrent control calls

\* Two threads each make one control call on the same object, which is fresh
\* or has completed control(10, 0).  A call is three steps, one for each
\* access to _last_error: the test of line 32 (with the error of line 31),
\* the read and division of line 35, the write of line 38 (with lines 37
\* and 39).  The interpreter may switch threads between the steps.
Threads == {1, 2}

InitConc ==
    \E kp \in KpValues, kd \in KdValues, dt \in DtValues :
        \E start \in {init(kp, kd, dt), control(init(kp, kd, dt), 1000, 0).self},
           r1 \in References, o1 \in ConcObservations,
           r2 \in References, o2 \in ConcObservations :
            /\ self = start
            /\ ctor = [kp |-> kp, kd |-> kd, dt |-> dt]
            /\ conc = [start |-> start, writes |-> 0,
                       th |-> <<[NoThread EXCEPT !.pc = "L32", !.reference = r1,
                                                 !.observation = o1],
                                [NoThread EXCEPT !.pc = "L32", !.reference = r2,
                                                 !.observation = o2]>>]
            /\ call = [op |-> "__init__", reference |-> 0, observation |-> 0,
                       before |-> NoSelf, ret |-> None]
            /\ prev_call = NoCall
            /\ completed = FALSE
            /\ zero_only = TRUE
            /\ last_ok = None
            /\ scenario = 0
            /\ other = NoSelf
            /\ pair = NoPair

\* Lines 31-33: compute the error and test _last_error; without a previous
\* error the derivative is 0.0 and line 35 is skipped.
Test(t) ==
    /\ conc.th[t].pc = "L32"
    /\ \E e \in {error(conc.th[t].reference, conc.th[t].observation)} :
           conc' = [conc EXCEPT !.th[t] =
                       IF self.last_error = None
                       THEN [@ EXCEPT !.err = e, !.d = derivative(self, e),
                                      !.seen = conc.writes, !.pc = "L37"]
                       ELSE [@ EXCEPT !.err = e, !.pc = "L35"]]
    /\ UNCHANGED <<self, ctor, driver, other, pair>>

\* Line 35: read _last_error as it is now and divide by dt.
Divide(t) ==
    /\ conc.th[t].pc = "L35"
    /\ \E d \in {derivative(self, conc.th[t].err)} :
           conc' = [conc EXCEPT !.th[t] =
                       IF d = ZeroDivisionError
                       THEN [@ EXCEPT !.seen = conc.writes, !.pc = "raised",
                                      !.ret = ZeroDivisionError]
                       ELSE [@ EXCEPT !.seen = conc.writes, !.d = d,
                                      !.pc = "L37"]]
    /\ UNCHANGED <<self, ctor, driver, other, pair>>

\* Lines 37-39: compute u, write _last_error and return u.
Store(t) ==
    /\ conc.th[t].pc = "L37"
    /\ self' = [self EXCEPT !.last_error = conc.th[t].err]
    /\ conc' = [conc EXCEPT !.writes = @ + 1,
                            !.th[t] = [@ EXCEPT
                                !.ret = u(self, conc.th[t].err, conc.th[t].d),
                                !.pc = "done"]]
    /\ UNCHANGED <<ctor, driver, other, pair>>

NextConc == \E t \in Threads : Test(t) \/ Divide(t) \/ Store(t)

SpecConc == InitConc /\ [][NextConc]_vars

\* ------------------------------------------------------------------ claims

\* The error of the most recent call, from its arguments.
CallError == Sub(Float(call.reference), Float(call.observation))
\* The error of the call before it, from its arguments.
PrevError == Sub(Float(prev_call.reference), Float(prev_call.observation))
IsControl == call.op = "control"
NoHistoryBefore == call.before.last_error = None
Raised == call.ret = ZeroDivisionError

\* C1: a control call made with no previous error stored (fresh object, or
\* first call after a reset) returns exactly kp * (reference - observation).
C1_FirstCallProportional ==
    (IsControl /\ NoHistoryBefore) => call.ret = Mul(call.before.kp, CallError)

\* C1 witness: the first call on a fresh object, with a derivative gain that
\* would show and a non-zero finite action.
C1_Witness ==
    /\ IsControl /\ NoHistoryBefore /\ prev_call.op = "__init__"
    /\ self.kd # Fin(0) /\ IsFin(call.ret) /\ call.ret # Fin(0)

\* C2: with dt # 0 and a previous error stored, the preceding call was a
\* control call and the action is kp*e2 + kd*(e2 - e1)/dt, e1 that call's error.
C2_DerivativeFormula ==
    (IsControl /\ ~NoHistoryBefore /\ self.dt # Fin(0)) =>
        /\ prev_call.op = "control"
        /\ call.ret = Add(Mul(self.kp, CallError),
                          Mul(self.kd, Div(Sub(CallError, PrevError), self.dt)))

\* C2 witness: two successive calls with different errors, gains and dt that
\* make both terms count.
C2_Witness ==
    /\ IsControl /\ ~NoHistoryBefore /\ prev_call.op = "control"
    /\ self.dt = Fin(50) /\ self.kd # Fin(0) /\ self.kp # Fin(0)
    /\ IsFin(CallError) /\ IsFin(PrevError) /\ CallError # PrevError
    /\ IsFin(call.ret)

\* C3: a control call that follows a reset returns kp * e, the action a
\* freshly constructed controller with the same arguments returns for it.
C3_ResetRearmsFirstCall ==
    (IsControl /\ prev_call.op = "reset") =>
        /\ call.ret = Mul(self.kp, CallError)
        /\ call.ret = control(init(ctor.kp, ctor.kd, ctor.dt),
                              call.reference, call.observation).ret

\* C3 witness: control, reset, control, where the reset cleared a stored error.
C3_Witness ==
    /\ IsControl /\ prev_call.op = "reset" /\ prev_call.had_error
    /\ self.kd # Fin(0) /\ IsFin(call.ret) /\ call.ret # Fin(0)

C5_NoHistoryIffNoControl ==
    /\ (self.last_error = None) <=> ~completed
    /\ call.op \in {"__init__", "reset"} => self.last_error = None
    /\ IsControl => self.last_error # None
    /\ \A reference \in References, observation \in Observations :
           \E e \in {Sub(Float(reference), Float(observation))},
              r \in {control(self, reference, observation)} :
               ENABLED ControlCall(reference, observation, e, r)
    /\ ENABLED Reset

\* C5 witness: a reset taken with an error stored.
C5_Witness == call.op = "reset" /\ call.before.last_error # None

C7_ResetIdempotent ==
    (call.op = "reset" /\ prev_call.op = "reset") => self = call.before

\* C7 witness: two resets in a row, the first of which cleared a stored error.
C7_Witness ==
    call.op = "reset" /\ prev_call.op = "reset" /\ prev_call.had_error

\* C8: kp, kd and dt are the values given at construction in every state,
\* and a control or reset call changes no field but last_error.
C8_GainsFixed ==
    /\ self.kp = Float(ctor.kp)
    /\ self.kd = Float(ctor.kd)
    /\ self.dt = Float(ctor.dt)
    /\ call.op \in {"control", "reset"} =>
           self = [call.before EXCEPT !.last_error = self.last_error]

\* C8 witness: a control call that changed last_error, on an object whose kd
\* float() had to round.
C8_Witness ==
    /\ IsControl /\ self.last_error # call.before.last_error
    /\ ctor.kd = 1015 /\ prev_call.op = "control"

\* C9: with dt # 0 no call ends in an error: control returns a number and
\* reset returns None.
C9_NoErrorWhenDtNonZero ==
    self.dt # Fin(0) =>
        /\ IsControl => call.ret.k \in {"fin", "inf", "nan"}
        /\ call.op = "reset" => call.ret = None

\* C9 witness: a control call that divided, by a non-zero dt, a zero
\* difference of errors.
C9_Witness ==
    /\ IsControl /\ ~NoHistoryBefore /\ self.dt # Fin(0)
    /\ CallError = call.before.last_error /\ IsFin(call.ret)

Defaults == ctor = [kp |-> 15, kd |-> 60, dt |-> 100]

\* C11: with kp = 0.15, kd = 0.6, dt = 1.0, the calls control(10, 0),
\* control(10, 2), reset(), control(10, 2) on a fresh controller return 1.5,
\* then 0.0, then (after the reset) 1.2.
C11_Scenario ==
    Defaults =>
        /\ scenario = 1 => call.ret = Fin(150)
        /\ scenario = 2 => call.ret = Fin(0)
        /\ scenario = 3 => call.ret = None
        /\ scenario = 4 => call.ret = Fin(120)

\* C11 witness: the whole scenario has run on a default controller.
C11_Witness == Defaults /\ scenario = 4 /\ IsControl /\ prev_call.op = "reset"

\* C13: a control call that fails (dt = 0 with an error stored) changes
\* nothing: last_error is still the error of the last control call that
\* returned, every control call from that state fails too, and after a reset
\* a control call returns again.
C13_FailedCallChangesNothing ==
    (IsControl /\ Raised) =>
        /\ self = call.before
        /\ self.last_error # None
        /\ self.last_error = last_ok
        /\ \A reference \in References, observation \in Observations :
               /\ control(self, reference, observation).ret = ZeroDivisionError
               /\ control(reset(self), reference, observation).ret
                      # ZeroDivisionError

\* C13 witness: a failed call whose error differs from the stored one, right
\* after another control call.
C13_Witness ==
    /\ IsControl /\ Raised /\ prev_call.op = "control"
    /\ CallError # self.last_error

\* C14: dt = 0 is accepted at construction; with dt = 0 a control call made
\* with no error stored returns kp * (reference - observation); a call fails
\* only with dt = 0 and an error stored.
C14_ZeroDtDeferred ==
    /\ ctor.dt = 0 => self.dt = Fin(0)
    /\ (call.op = "__init__" /\ ctor.dt = 0) =>
           self = [kp |-> Float(ctor.kp), kd |-> Float(ctor.kd),
                   dt |-> Fin(0), last_error |-> None]
    /\ (IsControl /\ NoHistoryBefore /\ self.dt = Fin(0)) =>
           ~Raised /\ call.ret = Mul(self.kp, CallError)
    /\ Raised => (~NoHistoryBefore /\ self.dt = Fin(0))

\* C14 witness: with dt = 0, the first call after a reset that cleared a
\* stored error returns a non-zero action.
C14_Witness ==
    /\ ctor.dt = 0 /\ IsControl /\ NoHistoryBefore
    /\ prev_call.op = "reset" /\ prev_call.had_error
    /\ IsFin(call.ret) /\ call.ret # Fin(0)

\* What the most recent control call did: the object after it and its outcome.
CallOutcome == [self |-> self, ret |-> call.ret]
\* The error of the most recent call with both arguments shifted by c.
ShiftedError(c) ==
    Sub(Float(call.reference + c), Float(call.observation + c))

\* C16 as stated: control(reference + c, observation + c) returns the same
\* action and leaves the same last_error as control(reference, observation),
\* for every offset c.
C16_Original ==
    IsControl =>
        \A c \in Offsets :
            control(call.before, call.reference + c, call.observation + c)
                = CallOutcome

\* C16 amended: control depends on its arguments only through the float
\* difference it computes: the shifted call does the same as the call made
\* whenever float(reference + c) - float(observation + c) equals
\* float(reference) - float(observation).
C16_SameErrorSameOutcome ==
    IsControl =>
        \A c \in Offsets :
            ShiftedError(c) = CallError =>
                control(call.before, call.reference + c, call.observation + c)
                    = CallOutcome

\* C16 witness: a call with an error stored, a non-zero action and an offset
\* that leaves the computed error as it is.
C16_Witness ==
    /\ IsControl /\ ~NoHistoryBefore /\ IsFin(call.ret) /\ call.ret # Fin(0)
    /\ self.kp # Fin(0) /\ call.reference # 0
    /\ \E c \in Offsets : ShiftedError(c) = CallError

\* C15: two objects with equal kp, kd, dt that have each just completed a
\* control call with the same error (or are both without history) return
\* identical actions for every identical later sequence of control and reset
\* calls, whatever calls they received before.
C15_OneStepMemory == pair.sync => pair.ret_a = pair.ret_b

\* C15 witness: one object was reset on the way and the other was not, and a
\* common control call returned a finite action whose derivative term, taken
\* against the error both had completed, is not zero.
C15_Witness ==
    /\ pair.sync /\ pair.reset_a /\ ~pair.reset_b
    /\ pair.a # None /\ self.kd # Fin(0) /\ self.dt # Fin(0)
    /\ IsFin(pair.ret_a) /\ pair.ret_a # Mul(self.kp, pair.a)

\* Thread t's call has returned or raised.
Finished(t) == conc.th[t].pc \in {"done", "raised"}
\* Thread t read _last_error for the last time before any write of it.
ReadBeforeWrites(t) == conc.th[t].seen = 0
\* What thread t's call gives when its derivative is taken against the error
\* stored when the two calls began (the first-call rule when none was).
AgainstStart(t) ==
    LET e == Sub(Float(conc.th[t].reference), Float(conc.th[t].observation))
    IN  IF conc.start.last_error = None
        THEN Add(Mul(self.kp, e), Mul(self.kd, Fin(0)))
        ELSE IF self.dt = Fin(0) THEN ZeroDivisionError
        ELSE Add(Mul(self.kp, e),
                 Mul(self.kd, Div(Sub(e, conc.start.last_error), self.dt)))
\* The two actions when thread a's call runs to its end before thread b's.
InOrder(a, b) ==
    LET ra == control(conc.start, conc.th[a].reference, conc.th[a].observation)
        rb == control(ra.self, conc.th[b].reference, conc.th[b].observation)
    IN  [x \in Threads |-> IF x = a THEN ra.ret ELSE rb.ret]
\* The two actions returned.
Returned == [x \in Threads |-> conc.th[x].ret]

\* C12: when two control calls on one object interleave so that both read
\* last_error before either writes it, both take their derivative against
\* the same earlier error (or both apply the first-call rule).
C12_SameEarlierError ==
    (\A t \in Threads : Finished(t) /\ ReadBeforeWrites(t)) =>
        \A t \in Threads : conc.th[t].ret = AgainstStart(t)

\* C12 witness: both calls returned after such an interleaving, against a
\* stored error, and the pair of actions is that of neither sequential order.
C12_Witness ==
    /\ \A t \in Threads : conc.th[t].pc = "done" /\ ReadBeforeWrites(t)
    /\ conc.start.last_error # None
    /\ Returned # InOrder(1, 2)
    /\ Returned # InOrder(2, 1)

\* Both calls applied the first-call rule, and the pair of actions is that of
\* neither sequential order.
C12_FirstCallTwice ==
    /\ \A t \in Threads : conc.th[t].pc = "done" /\ ReadBeforeWrites(t)
    /\ conc.start.last_error = None
    /\ Returned # InOrder(1, 2)
    /\ Returned # InOrder(2, 1)

====
